---- MODULE Spec2Model ----
(***************************************************************************)
(* Model of the Google Cloud Storage upload provider (src/lib/index.js):   *)
(* configuration validation, init, upload and delete, together with the    *)
(* remote object-storage service the provider talks to.                    *)
(*                                                                         *)
(* JavaScript strings are sequences of one-character strings, so that      *)
(* basename, slugify, toLowerCase, replace and concatenation are computed  *)
(* and not assumed.  A remote call is a request record in `net`: it is     *)
(* "sent" when the code issues it, and one step later the service answers  *)
(* it and the promise callbacks the code attached to it run.               *)
(***************************************************************************)
EXTENDS Integers, Sequences, FiniteSets, TLC

(***************************************************************************)
(* Bounds of the model.                                                    *)
(***************************************************************************)
\* number of upload/delete calls the host issues on one adapter
MaxCalls == 2

(***************************************************************************)
(* JavaScript values.                                                      *)
(***************************************************************************)
\* the string-typed slot that holds `undefined`
Undefined == << "#undefined" >>

\* !s for a string-or-undefined slot
Falsy(s) == s = Undefined \/ s = << >>

\* !v for the abstract credential fields of the parsed service account
FalsyField(v) == v \in {"undefined", ""}

UpperChars == << "A", "B", "C", "D", "E", "F", "G", "H", "I", "J", "K", "L", "M",
                 "N", "O", "P", "Q", "R", "S", "T", "U", "V", "W", "X", "Y", "Z" >>

LowerChars == << "a", "b", "c", "d", "e", "f", "g", "h", "i", "j", "k", "l", "m",
                 "n", "o", "p", "q", "r", "s", "t", "u", "v", "w", "x", "y", "z" >>

Digits == { "0", "1", "2", "3", "4", "5", "6", "7", "8", "9" }

ToLowerChar(ch) ==
    IF \E i \in DOMAIN UpperChars : UpperChars[i] = ch
    THEN LowerChars[CHOOSE i \in DOMAIN UpperChars : UpperChars[i] = ch]
    ELSE ch

\* String.prototype.toLowerCase
toLowerCase(s) == [i \in DOMAIN s |-> ToLowerChar(s[i])]

\* s.endsWith(suffix)
EndsWith(s, suffix) ==
    /\ Len(suffix) <= Len(s)
    /\ SubSeq(s, Len(s) - Len(suffix) + 1, Len(s)) = suffix

\* index of the first occurrence of pat in s, 0 when there is none
IndexOf(s, pat) ==
    LET hits == { i \in 1..(Len(s) - Len(pat) + 1) : SubSeq(s, i, i + Len(pat) - 1) = pat }
    IN  IF hits = {} THEN 0 ELSE CHOOSE i \in hits : \A j \in hits : i <= j

\* s.replace(/pat/, rep) for a literal pattern: the first occurrence only
ReplaceFirst(s, pat, rep) ==
    LET i == IndexOf(s, pat)
    IN  IF i = 0 THEN s
        ELSE SubSeq(s, 1, i - 1) \o rep \o SubSeq(s, i + Len(pat), Len(s))

(***************************************************************************)
(* Configuration (module.exports.auth) and its validation.                 *)
(***************************************************************************)
MsgServiceAccountRequired == "\"Service Account JSON\" is required!"

MsgBucketNameRequired == "\"Multi-Regional Bucket name\" is required!"

MsgMissingProjectId ==
    "Error parsing data \"Service Account JSON\". Missing \"project_id\" field in JSON file."

MsgMissingClientEmail ==
    "Error parsing data \"Service Account JSON\". Missing \"client_email\" field in JSON file."

MsgMissingPrivateKey ==
    "Error parsing data \"Service Account JSON\". Missing \"private_key\" field in JSON file."

MsgParseError ==
    "Error parsing data \"Service Account JSON\", please be sure to copy/paste the full JSON file."

\* values a credential field of the service-account JSON takes: absent, "", a value
FieldValues == { "undefined", "", "v" }

\* config.serviceAccount: undefined, "", text that is not JSON, the JSON text
\* "null", or the JSON text of an object with any of the three fields
ServiceAccountTexts ==
    { [kind |-> k, project_id |-> "undefined", client_email |-> "undefined",
       private_key |-> "undefined"] : k \in { "undefined", "empty", "garbage", "null" } }
    \cup
    { [kind |-> "object", project_id |-> p, client_email |-> e, private_key |-> k] :
        p \in FieldValues, e \in FieldValues, k \in FieldValues }

MyBucket == << "m", "y", "-", "b", "u", "c", "k", "e", "t" >>

BucketNames == { Undefined, << >>, MyBucket }

BucketNamePlaceholder ==
    << "{", "b", "u", "c", "k", "e", "t", "-", "n", "a", "m", "e", "}" >>

BaseUrlStorage ==
    << "h", "t", "t", "p", "s", ":", "/", "/", "s", "t", "o", "r", "a", "g", "e", ".",
       "g", "o", "o", "g", "l", "e", "a", "p", "i", "s", ".", "c", "o", "m", "/" >>
    \o BucketNamePlaceholder

BaseUrlHttps == << "h", "t", "t", "p", "s", ":", "/", "/" >> \o BucketNamePlaceholder

BaseUrlHttp == << "h", "t", "t", "p", ":", "/", "/" >> \o BucketNamePlaceholder

\* auth.bucketLocation.values and auth.baseUrl.values, as the host offers them
Endpoints ==
    { [bucketLocation |-> "asia", baseUrl |-> BaseUrlStorage],
      [bucketLocation |-> "eu", baseUrl |-> BaseUrlHttps],
      [bucketLocation |-> "us", baseUrl |-> BaseUrlHttp] }

Configs ==
    { [serviceAccount |-> sa, bucketName |-> b,
       bucketLocation |-> e.bucketLocation, baseUrl |-> e.baseUrl] :
        sa \in ServiceAccountTexts, b \in BucketNames, e \in Endpoints }

\* outcomes of a synchronous function: a returned value or a thrown Error
Return(v) == [threw |-> FALSE, message |-> "", value |-> v]

Throw(msg) ==
    [threw |-> TRUE, message |-> msg,
     value |-> [project_id |-> "undefined", client_email |-> "undefined",
                private_key |-> "undefined"]]

\* JSON.parse(config.serviceAccount): a SyntaxError, null, or the object
JSONparse(text) ==
    CASE text.kind = "object" ->
            [syntaxError |-> FALSE, isNull |-> FALSE,
             object |-> [project_id |-> text.project_id,
                         client_email |-> text.client_email,
                         private_key |-> text.private_key]]
      [] text.kind = "null" ->
            [syntaxError |-> FALSE, isNull |-> TRUE,
             object |-> [project_id |-> "undefined", client_email |-> "undefined",
                         private_key |-> "undefined"]]
      [] OTHER ->
            [syntaxError |-> TRUE, isNull |-> FALSE,
             object |-> [project_id |-> "undefined", client_email |-> "undefined",
                         private_key |-> "undefined"]]

\* the body of the try block of checkServiceAccount
checkServiceAccountTry(cfg) ==
    LET parsed == JSONparse(cfg.serviceAccount)
    IN  IF parsed.syntaxError THEN Throw("SyntaxError")
        ELSE IF parsed.isNull THEN Throw("TypeError")
        ELSE IF FalsyField(parsed.object.project_id) THEN Throw(MsgMissingProjectId)
        ELSE IF FalsyField(parsed.object.client_email) THEN Throw(MsgMissingClientEmail)
        ELSE IF FalsyField(parsed.object.private_key) THEN Throw(MsgMissingPrivateKey)
        ELSE Return(parsed.object)

\* the mutant: the bucketName test is left out
checkServiceAccountNoBucketTest(cfg) ==
    IF cfg.serviceAccount.kind \in { "undefined", "empty" }
    THEN Throw(MsgServiceAccountRequired)
    ELSE LET tried == checkServiceAccountTry(cfg)
         IN  IF tried.threw THEN Throw(MsgParseError) ELSE tried

\* checkServiceAccount: everything thrown inside the try block, the
\* "Missing ... field" errors included, is caught and replaced
checkServiceAccount(cfg) ==
    IF cfg.serviceAccount.kind \in { "undefined", "empty" }
    THEN Throw(MsgServiceAccountRequired)
    ELSE IF Falsy(cfg.bucketName)
    THEN Throw(MsgBucketNameRequired)
    ELSE LET tried == checkServiceAccountTry(cfg)
         IN  IF tried.threw THEN Throw(MsgParseError) ELSE tried

(***************************************************************************)
(* File descriptors and the object key.                                    *)
(***************************************************************************)
\* \w of the regular expressions
IsWordChar(ch) ==
    \/ \E i \in DOMAIN UpperChars : UpperChars[i] = ch \/ LowerChars[i] = ch
    \/ ch \in Digits
    \/ ch = "_"

\* the punctuation slugify's default `remove` pattern keeps
SlugPunctuation == { "$", "*", "+", "~", ".", "(", ")", "'", "\"", "!", ":", "@" }

RECURSIVE SlugMap(_)
\* slugify, first pass: the replacement character "-" becomes a space and
\* every character outside [\w\s$*_+~.()'"!\-:@] is removed
SlugMap(s) ==
    IF s = << >> THEN << >>
    ELSE LET ch == Head(s)
             out == IF ch = "-" \/ ch = " " THEN << " " >>
                    ELSE IF IsWordChar(ch) \/ ch \in SlugPunctuation THEN << ch >>
                    ELSE << >>
         IN  out \o SlugMap(Tail(s))

RECURSIVE Trim(_)
\* String.prototype.trim
Trim(s) ==
    IF s = << >> THEN s
    ELSE IF Head(s) = " " THEN Trim(Tail(s))
    ELSE IF s[Len(s)] = " " THEN Trim(SubSeq(s, 1, Len(s) - 1))
    ELSE s

RECURSIVE CollapseSpaces(_)
\* slug.replace(/\s+/g, "-")
CollapseSpaces(s) ==
    IF s = << >> THEN << >>
    ELSE IF Head(s) = " "
    THEN IF Len(s) > 1 /\ s[2] = " " THEN CollapseSpaces(Tail(s))
         ELSE << "-" >> \o CollapseSpaces(Tail(s))
    ELSE << Head(s) >> \o CollapseSpaces(Tail(s))

\* the mutant: slugify with lower: true
slugifyLower(s) == toLowerCase(CollapseSpaces(Trim(SlugMap(s))))

\* slugify(string) with its default options (lower: false, strict: false)
slugify(s) == CollapseSpaces(Trim(SlugMap(s)))

\* the part of p after its last "/"
LastSegment(p) ==
    LET slashes == { i \in DOMAIN p : p[i] = "/" }
    IN  IF slashes = {} THEN p
        ELSE SubSeq(p, (CHOOSE i \in slashes : \A j \in slashes : j <= i) + 1, Len(p))

\* path.basename(p, ext): the last segment, without ext when it ends with
\* ext (compared case-sensitively) and is longer than ext
basename(p, ext) ==
    LET base == LastSegment(p)
    IN  IF ext # << >> /\ ext = p THEN << >>
        ELSE IF ext # << >> /\ EndsWith(base, ext) /\ base # ext
        THEN SubSeq(base, 1, Len(base) - Len(ext))
        ELSE base

\* fileName of upload and of delete
fileName(file) == slugify(basename(file.name, file.ext)) \o toLowerCase(file.ext)

\* backupPath of upload
backupPath(file) ==
    IF Len(file.related) > 0 /\ ~Falsy(file.related[1].ref)
    THEN file.related[1].ref \o << "/" >> \o file.related[1].refId
    ELSE file.hash

\* filePath of upload
uploadFilePath(file) ==
    IF ~Falsy(file.path) THEN file.path \o << "/" >> ELSE backupPath(file) \o << "/" >>

\* the mutant: delete falls back to the related reference as upload does
deleteFilePathWithRelated(file) ==
    IF ~Falsy(file.path) THEN file.path \o << "/" >> ELSE backupPath(file) \o << "/" >>

\* filePath of delete
deleteFilePath(file) ==
    IF ~Falsy(file.path) THEN file.path \o << "/" >> ELSE file.hash \o << "/" >>

\* the object upload writes: `${filePath}${fileName}`
uploadKey(file) == uploadFilePath(file) \o fileName(file)

\* the object delete removes: `${filePath}${fileName}`
deleteKey(file) == deleteFilePath(file) \o fileName(file)

\* the mutant: the "/" between the base url and the key is left out
fileUrlNoSlash(cfg, key) ==
    ReplaceFirst(cfg.baseUrl, BucketNamePlaceholder, cfg.bucketName) \o key

\* file.url as upload computes it
fileUrl(cfg, key) ==
    ReplaceFirst(cfg.baseUrl, BucketNamePlaceholder, cfg.bucketName) \o << "/" >> \o key

PhotoFile ==
    [name |-> << "P", "h", "o", "t", "o", ".", "J", "P", "G" >>,
     ext |-> << ".", "j", "p", "g" >>,
     path |-> << "u", "p", "l", "o", "a", "d", "s" >>,
     hash |-> << "h", "1" >>,
     related |-> << >>,
     mime |-> "image/jpeg", buffer |-> "photo-bytes", url |-> Undefined]

RelatedFile ==
    [name |-> << "a", " ", "b", ".", "p", "n", "g" >>,
     ext |-> << ".", "p", "n", "g" >>,
     path |-> Undefined,
     hash |-> << "h", "2" >>,
     related |-> << [ref |-> << "p", "o", "s", "t" >>, refId |-> << "7" >>] >>,
     mime |-> "image/png", buffer |-> "related-bytes", url |-> Undefined]

HashFile ==
    [name |-> << "d", "o", "c", ".", "P", "D", "F" >>,
     ext |-> << ".", "P", "D", "F" >>,
     path |-> << >>,
     hash |-> << "h", "3" >>,
     related |-> << >>,
     mime |-> "application/pdf", buffer |-> "doc-bytes",
     url |-> << "o", "l", "d", "-", "u", "r", "l" >>]

PathRelatedFile ==
    [name |-> << "M", "y", " ", "P", "i", "c", ".", "P", "N", "G" >>,
     ext |-> << ".", "P", "N", "G" >>,
     path |-> << "m", "e", "d", "i", "a" >>,
     hash |-> << "h", "4" >>,
     related |-> << [ref |-> << "u", "s", "e", "r" >>, refId |-> << "9" >>] >>,
     mime |-> "image/png", buffer |-> "pic-bytes", url |-> Undefined]

\* the file descriptors the host hands to upload and delete
Files == { PhotoFile, RelatedFile, HashFile, PathRelatedFile }

Keys == { uploadKey(f) : f \in Files } \cup { deleteKey(f) : f \in Files }

(***************************************************************************)
(* State.                                                                  *)
(***************************************************************************)
VARIABLES
    config,        \* the config object the host passes to init
    adapter,       \* "loaded" (init not called), "ready" (init returned), "failed" (init threw)
    initError,     \* message of the Error init threw, "" when none
    GCS,           \* the Storage client init constructed, NoClient before
    bucketExists,  \* remote: whether the bucket config.bucketName exists
    objects,       \* remote: the content stored at each object key of the bucket
    calls,         \* per upload/delete call: its file, object key and returned promise
    net,           \* the remote calls issued so far, outstanding ("sent") or settled ("done")
    log            \* what was written to strapi.log

vars == << config, adapter, initError, GCS, bucketExists, objects, calls, net, log >>

CallIds == 1..MaxCalls

NoClient == [projectId |-> "undefined", client_email |-> "undefined",
             private_key |-> "undefined", constructed |-> FALSE]

NoObject == "no-object"

StaleBytes == "stale-bytes"

\* errors: those of the storage layer carry the HTTP code
NoError == [code |-> 0, from |-> "none", message |-> << >>]

StorageError(kind, code) == [code |-> code, from |-> kind, message |-> << >>]

\* the Error of the catch block of checkBucket
BucketError(bucketName) ==
    [code |-> 0, from |-> "checkBucket",
     message |-> << "An error occurs when we try to create the Bucket \"" >>
                 \o bucketName
                 \o << "\". Please try again on Google Cloud Platform directly." >>]

\* new Promise(...): settled at most once, by the first resolve() or reject()
PendingPromise == [state |-> "pending", reason |-> NoError]

Resolve(p) == IF p.state = "pending" THEN [state |-> "resolved", reason |-> NoError] ELSE p

Reject(p, error) == IF p.state = "pending" THEN [state |-> "rejected", reason |-> error] ELSE p

NoFile ==
    [name |-> << >>, ext |-> << >>, path |-> Undefined, hash |-> << >>, related |-> << >>,
     mime |-> "", buffer |-> "", url |-> Undefined]

\* a call the host has not made yet; url0, bucket0 and object0 record the
\* file.url passed in and the remote state when the call starts
IdleCall ==
    [op |-> "idle", file |-> NoFile, url0 |-> Undefined, key |-> << >>,
     promise |-> PendingPromise, unhandled |-> {},
     bucket0 |-> FALSE, object0 |-> NoObject]

\* a remote call as the code issues it; `after` records which of the same
\* call's remote calls had settled by then
Request(c, kind, key, body, settled) ==
    [call |-> c, kind |-> kind, key |-> key, body |-> body, status |-> "sent",
     ok |-> FALSE, data |-> FALSE, error |-> NoError, after |-> settled]

Answered(r, answer) ==
    [r EXCEPT !.status = "done", !.ok = answer.ok, !.data = answer.data,
              !.error = answer.error]

\* the kinds of call c's remote calls that have settled, r included
SettledWith(r) ==
    { q.kind : q \in { q \in net : q.call = r.call /\ q.status = "done" } } \cup { r.kind }

LogEntry(c, level, msg) == [call |-> c, level |-> level, msg |-> msg]

MsgNotFound == << "Remote file was not found, you may have to delete manually." >>

MsgAlreadyExist == << "File already exist, try to remove it." >>

MsgRemoved == << "File has been removed with success." >>

MsgBucketCreated(bucketName) ==
    << "Bucket " >> \o bucketName \o << " successfully created." >>

MsgUploaded(url) == << "File successfully uploaded to " >> \o url

MsgDeleted(url) == << "File " >> \o url \o << " successfully deleted" >>

Init ==
    /\ config \in Configs
    /\ adapter = "loaded"
    /\ initError = ""
    /\ GCS = NoClient
    /\ bucketExists \in BOOLEAN
    /\ objects \in { [k \in Keys |-> NoObject] } \cup
                   { [k \in Keys |-> StaleBytes] : b \in { bucketExists } \ { FALSE } }
    /\ calls = [c \in CallIds |-> IdleCall]
    /\ net = {}
    /\ log = {}

(***************************************************************************)
(* init                                                                    *)
(***************************************************************************)
\* init(config): checkServiceAccount, then new Storage(...)
InitAdapter ==
    /\ adapter = "loaded"
    /\ LET serviceAccount == checkServiceAccount(config)
       IN  IF serviceAccount.threw
           THEN /\ adapter' = "failed"
                /\ initError' = serviceAccount.message
                /\ GCS' = GCS
           ELSE /\ adapter' = "ready"
                /\ initError' = initError
                /\ GCS' = [projectId |-> serviceAccount.value.project_id,
                           client_email |-> serviceAccount.value.client_email,
                           private_key |-> serviceAccount.value.private_key,
                           constructed |-> TRUE]
    /\ UNCHANGED << config, bucketExists, objects, calls, net, log >>

(***************************************************************************)
(* The object-storage service: the answers it can give to each remote call *)
(* in the current remote state.  Any call can fail with a 500; a delete of *)
(* an absent object and a write to an absent bucket answer 404; creating a *)
(* bucket that exists answers 409.                                         *)
(***************************************************************************)
Success(data) == [ok |-> TRUE, data |-> data, error |-> NoError]

Failure(kind, code) == [ok |-> FALSE, data |-> FALSE, error |-> StorageError(kind, code)]

BucketExistsAnswers == { Success(bucketExists), Failure("bucket.exists", 500) }

CreateBucketAnswers ==
    IF bucketExists THEN { Failure("createBucket", 409) }
    ELSE { Success(TRUE), Failure("createBucket", 500) }

FileExistsAnswers(key) == { Success(objects[key] # NoObject), Failure("file.exists", 500) }

FileDeleteAnswers(key) ==
    IF objects[key] = NoObject
    THEN { Failure("file.delete", 404), Failure("file.delete", 500) }
    ELSE { Success(TRUE), Failure("file.delete", 500) }

FileSaveAnswers ==
    IF bucketExists THEN { Success(TRUE), Failure("file.save", 500) }
    ELSE { Failure("file.save", 404) }

(***************************************************************************)
(* checkBucket and upload                                                  *)
(***************************************************************************)
\* the mutant: createBucket is called whatever the existence check answered
checkBucketThenAlwaysCreates(c, data, settled) ==
    { Request(c, "createBucket", << >>, "", settled) }

\* checkBucket, the callback of bucket.exists(): createBucket is called and
\* its promise is neither returned nor awaited
checkBucketThen(c, data, settled) ==
    IF ~data THEN { Request(c, "createBucket", << >>, "", settled) } ELSE {}

\* upload, the two callbacks chained on checkBucket(...): the first calls
\* file.exists() and returns nothing, so the second calls save() right after
uploadThen(c, call, settled) ==
    { Request(c, "file.exists", call.key, "", settled),
      Request(c, "file.save", call.key, call.file.buffer, settled) }

\* upload, the callback of file.exists(): the pre-delete
existsThen(c, call, exist, settled) ==
    [requests |-> IF exist THEN { Request(c, "file.delete", call.key, "", settled) } ELSE {},
     logs |-> IF exist THEN { LogEntry(c, "info", MsgAlreadyExist) } ELSE {}]

\* upload, the callback of the pre-delete's success
preDeleteThen(c, call) == [call |-> call, logs |-> { LogEntry(c, "info", MsgRemoved) }]

\* the mutant: a failed pre-delete rejects the upload
preDeleteCatchRejects(c, call, error) ==
    [call |-> [call EXCEPT !.promise = Reject(@, error)],
     logs |-> IF error.code = 404 THEN { LogEntry(c, "warn", MsgNotFound) } ELSE {}]

\* upload, the catch of the pre-delete: a 404 is logged, any other error dropped
preDeleteCatch(c, call, error) ==
    [call |-> call,
     logs |-> IF error.code = 404 THEN { LogEntry(c, "warn", MsgNotFound) } ELSE {}]

\* upload, the callback of save()'s success
saveThen(c, call, cfg) ==
    LET url == fileUrl(cfg, call.key)
    IN  [call |-> [call EXCEPT !.file.url = url, !.promise = Resolve(@)],
         logs |-> { LogEntry(c, "debug", MsgUploaded(url)) }]

\* the mutant: a failed write still publishes the url and resolves
saveCatchResolves(c, call, error) ==
    [call |-> [call EXCEPT !.file.url = fileUrl(config, call.key), !.promise = Resolve(@)],
     logs |-> {}]

\* upload, the catch of save(): reject(error)
saveCatch(c, call, error) ==
    [call |-> [call EXCEPT !.promise = Reject(@, error)], logs |-> {}]

\* upload(file) up to the first await of checkBucket: bucket.exists() is issued
Upload(c, f) ==
    /\ adapter = "ready"
    /\ calls[c].op = "idle"
    /\ \A d \in CallIds : d < c => calls[d].op # "idle"
    /\ calls' = [calls EXCEPT ![c] =
                    [op |-> "upload", file |-> f, url0 |-> f.url, key |-> uploadKey(f),
                     promise |-> PendingPromise, unhandled |-> {},
                     bucket0 |-> bucketExists, object0 |-> objects[uploadKey(f)]]]
    /\ net' = net \cup { Request(c, "bucket.exists", << >>, "", {}) }
    /\ UNCHANGED << config, adapter, initError, GCS, bucketExists, objects, log >>

\* bucket.exists() settles.  Fulfilled: checkBucket's callback runs, then the
\* await ends and upload's two chained callbacks run.  Rejected: checkBucket
\* rejects, both callbacks are skipped and nothing handles the rejection.
SettleBucketExists(r) ==
    /\ r \in net /\ r.kind = "bucket.exists" /\ r.status = "sent"
    /\ \E answer \in BucketExistsAnswers :
        LET c == r.call
            settled == SettledWith(r)
        IN  IF answer.ok
            THEN /\ net' = (net \ { r })
                           \cup { Answered(r, answer) }
                           \cup checkBucketThen(c, answer.data, settled)
                           \cup uploadThen(c, calls[c], settled)
                 /\ calls' = calls
            ELSE /\ net' = (net \ { r }) \cup { Answered(r, answer) }
                 /\ calls' = [calls EXCEPT ![c].unhandled = @ \cup { answer.error }]
    /\ UNCHANGED << config, adapter, initError, GCS, bucketExists, objects, log >>

\* the mutant: a failed createBucket() rejects the upload
SettleCreateBucketRejects(r) ==
    /\ r \in net /\ r.kind = "createBucket" /\ r.status = "sent"
    /\ \E answer \in CreateBucketAnswers :
        /\ net' = (net \ { r }) \cup { Answered(r, answer) }
        /\ IF answer.ok
           THEN /\ bucketExists' = TRUE
                /\ log' = log \cup { LogEntry(r.call, "debug", MsgBucketCreated(config.bucketName)) }
                /\ calls' = calls
           ELSE /\ bucketExists' = bucketExists
                /\ log' = log
                /\ calls' = [calls EXCEPT ![r.call].promise = Reject(@, answer.error)]
    /\ UNCHANGED << config, adapter, initError, GCS, objects >>

\* createBucket() settles: its success is logged, its failure is handled nowhere
SettleCreateBucket(r) ==
    /\ r \in net /\ r.kind = "createBucket" /\ r.status = "sent"
    /\ \E answer \in CreateBucketAnswers :
        /\ net' = (net \ { r }) \cup { Answered(r, answer) }
        /\ IF answer.ok
           THEN /\ bucketExists' = TRUE
                /\ log' = log \cup { LogEntry(r.call, "debug", MsgBucketCreated(config.bucketName)) }
                /\ calls' = calls
           ELSE /\ bucketExists' = bucketExists
                /\ log' = log
                /\ calls' = [calls EXCEPT ![r.call].unhandled = @ \cup { answer.error }]
    /\ UNCHANGED << config, adapter, initError, GCS, objects >>

\* file.exists() settles: on [true] the pre-delete is issued; a rejection is
\* handled nowhere
SettleFileExists(r) ==
    /\ r \in net /\ r.kind = "file.exists" /\ r.status = "sent"
    /\ \E answer \in FileExistsAnswers(r.key) :
        LET c == r.call
            then == existsThen(c, calls[c], answer.data, SettledWith(r))
        IN  IF answer.ok
            THEN /\ net' = (net \ { r }) \cup { Answered(r, answer) } \cup then.requests
                 /\ log' = log \cup then.logs
                 /\ calls' = calls
            ELSE /\ net' = (net \ { r }) \cup { Answered(r, answer) }
                 /\ log' = log
                 /\ calls' = [calls EXCEPT ![c].unhandled = @ \cup { answer.error }]
    /\ UNCHANGED << config, adapter, initError, GCS, bucketExists, objects >>

\* the pre-delete of upload settles
SettlePreDelete(r) ==
    /\ r \in net /\ r.kind = "file.delete" /\ r.status = "sent"
    /\ calls[r.call].op = "upload"
    /\ \E answer \in FileDeleteAnswers(r.key) :
        LET c == r.call
            handled == IF answer.ok THEN preDeleteThen(c, calls[c])
                       ELSE preDeleteCatch(c, calls[c], answer.error)
        IN  /\ net' = (net \ { r }) \cup { Answered(r, answer) }
            /\ objects' = IF answer.ok THEN [objects EXCEPT ![r.key] = NoObject] ELSE objects
            /\ calls' = [calls EXCEPT ![c] = handled.call]
            /\ log' = log \cup handled.logs
    /\ UNCHANGED << config, adapter, initError, GCS, bucketExists >>

\* the mutant: a failed save() is issued again
SettleSaveRetries(r) ==
    /\ r \in net /\ r.kind = "file.save" /\ r.status = "sent"
    /\ \E answer \in FileSaveAnswers :
        LET c == r.call
            handled == IF answer.ok THEN saveThen(c, calls[c], config)
                       ELSE saveCatch(c, calls[c], answer.error)
        IN  /\ net' = (net \ { r }) \cup { Answered(r, answer) }
                      \cup IF answer.ok THEN {}
                           ELSE { Request(c, "file.save", r.key, r.body, SettledWith(r)) }
            /\ objects' = IF answer.ok THEN [objects EXCEPT ![r.key] = r.body] ELSE objects
            /\ calls' = [calls EXCEPT ![c] = handled.call]
            /\ log' = log \cup handled.logs
    /\ UNCHANGED << config, adapter, initError, GCS, bucketExists >>

\* save() settles
SettleSave(r) ==
    /\ r \in net /\ r.kind = "file.save" /\ r.status = "sent"
    /\ \E answer \in FileSaveAnswers :
        LET c == r.call
            handled == IF answer.ok THEN saveThen(c, calls[c], config)
                       ELSE saveCatch(c, calls[c], answer.error)
        IN  /\ net' = (net \ { r }) \cup { Answered(r, answer) }
            /\ objects' = IF answer.ok THEN [objects EXCEPT ![r.key] = r.body] ELSE objects
            /\ calls' = [calls EXCEPT ![c] = handled.call]
            /\ log' = log \cup handled.logs
    /\ UNCHANGED << config, adapter, initError, GCS, bucketExists >>

(***************************************************************************)
(* delete                                                                  *)
(***************************************************************************)
\* the mutant: the 404 is not told apart from the other errors
deleteCatchNo404(c, call, error) ==
    [call |-> [call EXCEPT !.promise = Reject(@, error)], logs |-> {}]

\* delete, the catch of file.delete(): a 404 is logged, any other error is
\* passed to reject()
deleteCatch(c, call, error) ==
    IF error.code = 404
    THEN [call |-> call, logs |-> { LogEntry(c, "warn", MsgNotFound) }]
    ELSE [call |-> [call EXCEPT !.promise = Reject(@, error)], logs |-> {}]

\* the mutant: delete removes the object under upload's key
DeleteWithUploadKey(c, f) ==
    /\ adapter = "ready"
    /\ calls[c].op = "idle"
    /\ \A d \in CallIds : d < c => calls[d].op # "idle"
    /\ calls' = [calls EXCEPT ![c] =
                    [op |-> "delete", file |-> f, url0 |-> f.url, key |-> uploadKey(f),
                     promise |-> Resolve(PendingPromise), unhandled |-> {},
                     bucket0 |-> bucketExists, object0 |-> objects[uploadKey(f)]]]
    /\ net' = net \cup { Request(c, "file.delete", uploadKey(f), "", {}) }
    /\ log' = log \cup { LogEntry(c, "debug", MsgDeleted(f.url)) }
    /\ UNCHANGED << config, adapter, initError, GCS, bucketExists, objects >>

\* the mutant: resolve() is not called when the remote delete is issued
DeleteWithoutResolve(c, f) ==
    /\ adapter = "ready"
    /\ calls[c].op = "idle"
    /\ \A d \in CallIds : d < c => calls[d].op # "idle"
    /\ calls' = [calls EXCEPT ![c] =
                    [op |-> "delete", file |-> f, url0 |-> f.url, key |-> deleteKey(f),
                     promise |-> PendingPromise, unhandled |-> {},
                     bucket0 |-> bucketExists, object0 |-> objects[deleteKey(f)]]]
    /\ net' = net \cup { Request(c, "file.delete", deleteKey(f), "", {}) }
    /\ log' = log \cup { LogEntry(c, "debug", MsgDeleted(f.url)) }
    /\ UNCHANGED << config, adapter, initError, GCS, bucketExists, objects >>

\* delete(file): file.delete() is issued, then, in the same turn, the success
\* is logged and resolve() is called
Delete(c, f) ==
    /\ adapter = "ready"
    /\ calls[c].op = "idle"
    /\ \A d \in CallIds : d < c => calls[d].op # "idle"
    /\ calls' = [calls EXCEPT ![c] =
                    [op |-> "delete", file |-> f, url0 |-> f.url, key |-> deleteKey(f),
                     promise |-> Resolve(PendingPromise), unhandled |-> {},
                     bucket0 |-> bucketExists, object0 |-> objects[deleteKey(f)]]]
    /\ net' = net \cup { Request(c, "file.delete", deleteKey(f), "", {}) }
    /\ log' = log \cup { LogEntry(c, "debug", MsgDeleted(f.url)) }
    /\ UNCHANGED << config, adapter, initError, GCS, bucketExists, objects >>

\* file.delete() of delete settles
SettleDelete(r) ==
    /\ r \in net /\ r.kind = "file.delete" /\ r.status = "sent"
    /\ calls[r.call].op = "delete"
    /\ \E answer \in FileDeleteAnswers(r.key) :
        LET c == r.call
            handled == IF answer.ok THEN [call |-> calls[c], logs |-> {}]
                       ELSE deleteCatch(c, calls[c], answer.error)
        IN  /\ net' = (net \ { r }) \cup { Answered(r, answer) }
            /\ objects' = IF answer.ok THEN [objects EXCEPT ![r.key] = NoObject] ELSE objects
            /\ calls' = [calls EXCEPT ![c] = handled.call]
            /\ log' = log \cup handled.logs
    /\ UNCHANGED << config, adapter, initError, GCS, bucketExists >>

(***************************************************************************)
(* Specification.                                                          *)
(***************************************************************************)
Next ==
    \/ InitAdapter
    \/ \E c \in CallIds, f \in Files : Upload(c, f)
    \/ \E c \in CallIds, f \in Files : Delete(c, f)
    \/ \E r \in net : SettleBucketExists(r)
    \/ \E r \in net : SettleCreateBucket(r)
    \/ \E r \in net : SettleFileExists(r)
    \/ \E r \in net : SettlePreDelete(r)
    \/ \E r \in net : SettleSave(r)
    \/ \E r \in net : SettleDelete(r)

Spec == Init /\ [][Next]_vars

(***************************************************************************)
(* Properties.                                                             *)
(***************************************************************************)
UploadCalls == { c \in CallIds : calls[c].op = "upload" }

DeleteCalls == { c \in CallIds : calls[c].op = "delete" }

\* the remote calls of one kind that call c has issued
RequestsOf(c, kind) == { r \in net : r.call = c /\ r.kind = kind }

Failed(r) == r.status = "done" /\ ~r.ok

Succeeded(r) == r.status = "done" /\ r.ok

\* every remote call that call c issued has settled
Quiescent(c) == \A r \in net : r.call = c => r.status = "done"

\* no other call works on the object key of call c
KeyNotShared(c) ==
    \A d \in CallIds \ { c } : calls[d].op = "idle" \/ calls[d].key # calls[c].key

\* C1: in upload, when the existence check finds an object at the key, the
\* write is issued only after the pre-delete of that object has settled.
C1_PreDeleteBeforeWrite ==
    \A c \in UploadCalls :
        (\E e \in RequestsOf(c, "file.exists") : Succeeded(e) /\ e.data)
        => \A w \in RequestsOf(c, "file.save") : "file.delete" \in w.after

\* C2: after an upload has resolved and all its remote calls have settled,
\* with no other call on the same key, the bucket holds the uploaded content
\* at the key.
C2_ResolvedUploadStoresContent ==
    \A c \in UploadCalls :
        (calls[c].promise.state = "resolved" /\ Quiescent(c) /\ KeyNotShared(c))
        => objects[calls[c].key] = calls[c].file.buffer

MissingConfig == config.serviceAccount.kind \in { "undefined", "empty" } \/ Falsy(config.bucketName)

\* C3: with serviceAccount or bucketName absent or empty, init throws the
\* "is required" error of the first missing one, no Storage client is
\* constructed, no upload or delete is ever started and no remote call issued.
C3_MissingConfigThrowsBeforeAnyCall ==
    MissingConfig =>
        /\ adapter \in { "loaded", "failed" }
        /\ adapter = "failed" =>
              initError = IF config.serviceAccount.kind \in { "undefined", "empty" }
                          THEN MsgServiceAccountRequired
                          ELSE MsgBucketNameRequired
        /\ ~GCS.constructed
        /\ net = {}
        /\ \A c \in CallIds : calls[c].op = "idle"

\* C3 witness: init has thrown on a config whose only defect is the bucket name
C3_Witness ==
    /\ adapter = "failed"
    /\ Falsy(config.bucketName)
    /\ ~checkServiceAccountTry(config).threw

\* the message naming the first missing credential field
FirstMissingFieldMessage(sa) ==
    IF FalsyField(sa.project_id) THEN MsgMissingProjectId
    ELSE IF FalsyField(sa.client_email) THEN MsgMissingClientEmail
    ELSE MsgMissingPrivateKey

\* C4: a serviceAccount that parses to an object lacking project_id,
\* client_email or private_key makes init throw the error that names the
\* first missing field.
C4_MissingFieldNamed ==
    ( /\ adapter # "loaded"
      /\ ~MissingConfig
      /\ config.serviceAccount.kind = "object"
      /\ \/ FalsyField(config.serviceAccount.project_id)
         \/ FalsyField(config.serviceAccount.client_email)
         \/ FalsyField(config.serviceAccount.private_key) )
    => /\ adapter = "failed"
       /\ initError = FirstMissingFieldMessage(config.serviceAccount)

\* C5: once an upload's remote calls have settled, a failed bucket existence
\* check or object existence check has rejected the upload promise with that
\* error.
C5_CheckErrorsRejectUpload ==
    \A c \in UploadCalls :
        \A r \in RequestsOf(c, "bucket.exists") \cup RequestsOf(c, "file.exists") :
            (Failed(r) /\ Quiescent(c))
            => /\ calls[c].promise.state = "rejected"
               /\ calls[c].promise.reason = r.error

\* C6: when the bucket is absent and its creation has failed, the upload is
\* rejected with the error that names the bucket and no write is issued.
C6_BucketCreationFailureSurfaced ==
    \A c \in UploadCalls :
        \A r \in RequestsOf(c, "createBucket") :
            (Failed(r) /\ ~bucketExists)
            => /\ calls[c].promise.state = "rejected"
               /\ calls[c].promise.reason = BucketError(config.bucketName)
               /\ RequestsOf(c, "file.save") = {}

\* C7: a failed write rejects the upload promise with the write's error and
\* leaves file.url as it was; file.url changes only after a successful write.
C7_WriteFailureRejects ==
    \A c \in UploadCalls :
        /\ \A w \in RequestsOf(c, "file.save") :
              Failed(w) => /\ calls[c].promise.state = "rejected"
                           /\ calls[c].promise.reason = w.error
                           /\ calls[c].file.url = calls[c].url0
        /\ calls[c].file.url # calls[c].url0
              => \E w \in RequestsOf(c, "file.save") : Succeeded(w)

\* C7 witness: a write has failed with a 500 on an existing bucket
C7_Witness ==
    \E c \in UploadCalls :
        \E w \in RequestsOf(c, "file.save") :
            Failed(w) /\ w.error.code = 500 /\ calls[c].promise.state = "rejected"

\* C8: a delete whose remote delete failed with an error other than 404 has
\* rejected its promise with that error.
C8_DeleteErrorRejects ==
    \A c \in DeleteCalls :
        \A r \in RequestsOf(c, "file.delete") :
            (Failed(r) /\ r.error.code # 404)
            => /\ calls[c].promise.state = "rejected"
               /\ calls[c].promise.reason = r.error

\* C9: a delete whose remote delete answered 404 is resolved, not rejected,
\* and the warning has been logged.
C9_DeleteOfAbsentObjectResolves ==
    \A c \in DeleteCalls :
        /\ objects[calls[c].key] = NoObject => calls[c].promise.state # "rejected"
        /\ \A r \in RequestsOf(c, "file.delete") :
              (Failed(r) /\ r.error.code = 404)
              => /\ calls[c].promise.state = "resolved"
                 /\ LogEntry(c, "warn", MsgNotFound) \in log

\* C9 witness: the remote delete of a delete call has answered 404
C9_Witness ==
    \E c \in DeleteCalls :
        \E r \in RequestsOf(c, "file.delete") : Failed(r) /\ r.error.code = 404

\* C10: after a failed pre-delete (404 or other) the write is still issued,
\* and once the write has succeeded the upload is resolved with file.url set.
C10_PreDeleteFailureDoesNotAbort ==
    \A c \in UploadCalls :
        \A d \in RequestsOf(c, "file.delete") :
            Failed(d)
            => /\ RequestsOf(c, "file.save") # {}
               /\ \A w \in RequestsOf(c, "file.save") :
                     Succeeded(w)
                     => /\ calls[c].promise.state = "resolved"
                        /\ calls[c].file.url = fileUrl(config, calls[c].key)

\* C10 witness: the pre-delete answered 404, the write succeeded, the upload resolved
C10_Witness ==
    \E c \in UploadCalls :
        /\ \E d \in RequestsOf(c, "file.delete") : Failed(d) /\ d.error.code = 404
        /\ \E w \in RequestsOf(c, "file.save") : Succeeded(w)
        /\ calls[c].promise.state = "resolved"

\* the base url with the bucket name in the place of {bucket-name}, spelled
\* out for each of the three url patterns
ExpectedBaseUrl(cfg) ==
    CASE cfg.baseUrl = BaseUrlStorage ->
            << "h", "t", "t", "p", "s", ":", "/", "/", "s", "t", "o", "r", "a", "g", "e", ".",
               "g", "o", "o", "g", "l", "e", "a", "p", "i", "s", ".", "c", "o", "m", "/" >>
            \o cfg.bucketName
      [] cfg.baseUrl = BaseUrlHttps ->
            << "h", "t", "t", "p", "s", ":", "/", "/" >> \o cfg.bucketName
      [] cfg.baseUrl = BaseUrlHttp ->
            << "h", "t", "t", "p", ":", "/", "/" >> \o cfg.bucketName

\* C11: once the write has succeeded, file.url is the base url with the
\* bucket name substituted, "/", and the key the object was written under,
\* and the promise is resolved; a resolved upload always has that url.
C11_UrlOnWriteSuccess ==
    \A c \in UploadCalls :
        /\ \A w \in RequestsOf(c, "file.save") :
              Succeeded(w)
              => /\ calls[c].file.url = ExpectedBaseUrl(config) \o << "/" >> \o w.key
                 /\ calls[c].promise.state = "resolved"
        /\ calls[c].promise.state = "resolved"
              => \E w \in RequestsOf(c, "file.save") :
                    /\ Succeeded(w)
                    /\ calls[c].file.url = ExpectedBaseUrl(config) \o << "/" >> \o w.key

\* C11 witness: an upload under the http://{bucket-name} pattern has resolved
C11_Witness ==
    \E c \in UploadCalls :
        /\ config.baseUrl = BaseUrlHttp
        /\ calls[c].promise.state = "resolved"
        /\ calls[c].file.url # calls[c].url0
        /\ \E w \in RequestsOf(c, "file.save") : Succeeded(w)

\* C12: a bucket creation is issued only by a call whose existence check
\* answered that the bucket is absent; a call whose check answered that the
\* bucket exists issues none.
C12_NoCreationForExistingBucket ==
    \A c \in CallIds :
        /\ \A r \in RequestsOf(c, "createBucket") :
              \E e \in RequestsOf(c, "bucket.exists") : Succeeded(e) /\ ~e.data
        /\ (\E e \in RequestsOf(c, "bucket.exists") : Succeeded(e) /\ e.data)
              => RequestsOf(c, "createBucket") = {}

\* C12 witness: checkBucket has run twice on an existing bucket and no
\* creation has been issued
C12_Witness ==
    /\ \A c \in CallIds :
          /\ calls[c].op = "upload"
          /\ calls[c].bucket0
          /\ \E e \in RequestsOf(c, "bucket.exists") : Succeeded(e) /\ e.data
    /\ \A r \in net : r.kind # "createBucket"

RemoteKinds == { "bucket.exists", "createBucket", "file.exists", "file.delete", "file.save" }

\* C13: a call issues each kind of remote call at most once, whatever the
\* answers; a delete call issues nothing but its one object delete.
C13_NoRetries ==
    \A c \in CallIds :
        /\ \A kind \in RemoteKinds : Cardinality(RequestsOf(c, kind)) <= 1
        /\ c \in DeleteCalls => \A r \in net : r.call = c => r.kind = "file.delete"

\* C13 witness: an upload has issued all five kinds of remote call, all have
\* settled and its write and its bucket creation have failed
C13_Witness ==
    \E c \in UploadCalls :
        /\ Quiescent(c)
        /\ \A kind \in RemoteKinds : Cardinality(RequestsOf(c, kind)) = 1
        /\ \E w \in RequestsOf(c, "file.save") : Failed(w)
        /\ \E r \in RequestsOf(c, "createBucket") : Failed(r)

\* C14: a delete of a file whose object exists issues exactly one remote
\* delete, for the key delete computes, and its promise is resolved.
C14_DeleteIssuesOneRemoteDelete ==
    \A c \in DeleteCalls :
        calls[c].object0 # NoObject
        => /\ Cardinality({ r \in net : r.call = c }) = 1
           /\ \A r \in net :
                 r.call = c => r.kind = "file.delete" /\ r.key = deleteKey(calls[c].file)
           /\ calls[c].promise.state = "resolved"

\* C14 witness: the object existed and the remote delete has removed it
C14_Witness ==
    \E c \in DeleteCalls :
        /\ calls[c].object0 # NoObject
        /\ \E r \in RequestsOf(c, "file.delete") : Succeeded(r)
        /\ objects[calls[c].key] = NoObject
        /\ calls[c].promise.state = "resolved"

\* what the host and the bucket show of a call: how its promise settled,
\* file.url, and the object at the call's key
Outcome(c) ==
    [state |-> calls[c].promise.state, code |-> calls[c].promise.reason.code,
     url |-> calls[c].file.url, object |-> objects[calls[c].key]]

\* the outcomes of an upload that runs alone from the remote state it
\* started in, once its remote calls have settled: never settled (the bucket
\* check failed), resolved (the object written, or removed again by the late
\* pre-delete), rejected by a failed write, or, when the bucket was absent,
\* rejected by a write that came before the bucket
SoloUploadOutcomes(call) ==
    LET url == ExpectedBaseUrl(config) \o << "/" >> \o call.key
    IN  { [state |-> "pending", code |-> 0, url |-> call.url0, object |-> call.object0] }
        \cup { [state |-> "resolved", code |-> 0, url |-> url, object |-> o] :
                 o \in { call.file.buffer, NoObject } }
        \cup { [state |-> "rejected", code |-> 500, url |-> call.url0, object |-> o] :
                 o \in { call.object0, NoObject } }
        \cup { [state |-> "rejected", code |-> 404, url |-> call.url0, object |-> NoObject] :
                 b \in { call.bucket0 } \ { TRUE } }

\* the outcomes of a delete that runs alone: resolved, the object removed or,
\* when the remote delete failed, left as it was
SoloDeleteOutcomes(call) ==
    { [state |-> "resolved", code |-> 0, url |-> call.url0, object |-> o] :
        o \in { call.object0, NoObject } }

SoloOutcomes(call) ==
    IF call.op = "upload" THEN SoloUploadOutcomes(call) ELSE SoloDeleteOutcomes(call)

\* C15: a call whose key no other call works on ends, whatever the other
\* call does and however the two interleave, in one of the outcomes it has
\* when it runs alone from the remote state it started in.
C15_DifferentKeysDoNotInterfere ==
    \A c \in CallIds :
        (calls[c].op # "idle" /\ Quiescent(c) /\ KeyNotShared(c))
        => Outcome(c) \in SoloOutcomes(calls[c])

\* C15 witness: two uploads to different keys both started while the bucket
\* was absent, both tried to create it, one creation was refused with 409,
\* and both uploads have resolved
C15_Witness ==
    /\ \A c \in CallIds :
          /\ calls[c].op = "upload"
          /\ ~calls[c].bucket0
          /\ Quiescent(c)
          /\ KeyNotShared(c)
          /\ calls[c].promise.state = "resolved"
          /\ RequestsOf(c, "createBucket") # {}
    /\ \E r \in net : r.kind = "createBucket" /\ Failed(r) /\ r.error.code = 409

\* C16: when an upload has to create the bucket, its object existence check
\* and its write are issued only after the creation has settled.
C16_BucketCreatedBeforeObjectCalls ==
    \A c \in UploadCalls :
        RequestsOf(c, "createBucket") # {}
        => \A r \in RequestsOf(c, "file.exists") \cup RequestsOf(c, "file.save") :
              "createBucket" \in r.after

\* C17: while the remote delete of a delete call is outstanding, the delete
\* promise is already resolved.
C17_DeleteResolvesWithoutWaiting ==
    \A c \in DeleteCalls :
        \A r \in RequestsOf(c, "file.delete") :
            r.status = "sent" => calls[c].promise.state = "resolved"

\* C17 witness: resolved, the remote delete outstanding, the object still there
C17_Witness ==
    \E c \in DeleteCalls :
        /\ calls[c].promise.state = "resolved"
        /\ \E r \in RequestsOf(c, "file.delete") : r.status = "sent"
        /\ objects[calls[c].key] # NoObject

\* the file descriptor as the host passed it to call c
Descriptor(c) == [calls[c].file EXCEPT !.url = calls[c].url0]

HasRelatedRef(f) == Len(f.related) > 0 /\ ~Falsy(f.related[1].ref)

\* C18: the key of a delete is <path, else hash>/<file name>, and for an
\* upload and a delete of the same file descriptor the two keys are equal
\* exactly when the file has a path or has no related reference.
C18_DeleteKeyIgnoresRelated ==
    /\ \A d \in DeleteCalls :
          LET f == Descriptor(d)
              name == SubSeq(calls[d].key, Len(calls[d].key) - Len(fileName(f)) + 1,
                             Len(calls[d].key))
              folder == SubSeq(calls[d].key, 1, Len(calls[d].key) - Len(fileName(f)))
          IN  /\ folder = (IF ~Falsy(f.path) THEN f.path ELSE f.hash) \o << "/" >>
              /\ name = fileName(f)
              /\ \A r \in net : r.call = d => r.key = calls[d].key
    /\ \A u \in UploadCalls, d \in DeleteCalls :
          Descriptor(u) = Descriptor(d)
          => ( calls[u].key = calls[d].key
               <=> (~Falsy(Descriptor(u).path) \/ ~HasRelatedRef(Descriptor(u))) )

\* C18 witness: a file with a related reference and no path was uploaded and
\* then deleted, both calls have settled, and the uploaded object is still
\* in the bucket
C18_Witness ==
    \E u \in UploadCalls, d \in DeleteCalls :
        /\ u < d
        /\ Descriptor(u) = Descriptor(d)
        /\ Falsy(Descriptor(u).path) /\ HasRelatedRef(Descriptor(u))
        /\ calls[u].promise.state = "resolved"
        /\ Quiescent(u) /\ Quiescent(d)
        /\ \E r \in RequestsOf(d, "file.delete") : Succeeded(r)
        /\ objects[calls[u].key] = calls[u].file.buffer

\* the extension removed from the name whatever its letter case
NameWithoutExt(f) ==
    IF EndsWith(toLowerCase(f.name), toLowerCase(f.ext)) /\ Len(f.name) > Len(f.ext)
    THEN SubSeq(f.name, 1, Len(f.name) - Len(f.ext))
    ELSE f.name

\* the folder of upload: the path, else the related reference, else the hash
ExpectedFolder(f) ==
    IF ~Falsy(f.path) THEN f.path
    ELSE IF HasRelatedRef(f) THEN f.related[1].ref \o << "/" >> \o f.related[1].refId
    ELSE f.hash

\* C19 as stated: upload's key is <folder>/<lowercase slug of the name
\* without its extension><lowercased ext>, so that Photo.JPG with ext .jpg
\* and path uploads gives uploads/photo.jpg.
C19_KeyIsLowercaseSlug ==
    \A c \in UploadCalls :
        LET f == Descriptor(c)
        IN  /\ calls[c].key = ExpectedFolder(f) \o << "/" >>
                              \o toLowerCase(CollapseSpaces(Trim(NameWithoutExt(f))))
                              \o toLowerCase(f.ext)
            /\ f = PhotoFile
                  => calls[c].key = << "u", "p", "l", "o", "a", "d", "s", "/",
                                       "p", "h", "o", "t", "o", ".", "j", "p", "g" >>

\* the file name part of the key, spelled out for each file descriptor
ExpectedFileName(f) ==
    CASE f = PhotoFile ->
            << "P", "h", "o", "t", "o", ".", "J", "P", "G", ".", "j", "p", "g" >>
      [] f = RelatedFile -> << "a", "-", "b", ".", "p", "n", "g" >>
      [] f = HashFile -> << "d", "o", "c", ".", "p", "d", "f" >>
      [] f = PathRelatedFile -> << "M", "y", "-", "P", "i", "c", ".", "p", "n", "g" >>

\* C19 as amended: upload's key is <folder>/<slug><lowercased ext>, where the
\* slug keeps the letter case of the name and the extension is removed from
\* the name only when the name ends with ext in the same letter case:
\* Photo.JPG with ext .jpg and path uploads gives uploads/Photo.JPG.jpg.
C19_UploadKey ==
    \A c \in UploadCalls :
        /\ calls[c].key = ExpectedFolder(Descriptor(c)) \o << "/" >>
                          \o ExpectedFileName(Descriptor(c))
        /\ \A r \in RequestsOf(c, "file.exists") \cup RequestsOf(c, "file.save")
                    \cup RequestsOf(c, "file.delete") : r.key = calls[c].key

\* C19 witness: Photo.JPG has been written under uploads/Photo.JPG.jpg
C19_Witness ==
    \E c \in UploadCalls :
        /\ Descriptor(c) = PhotoFile
        /\ \E w \in RequestsOf(c, "file.save") :
              /\ Succeeded(w)
              /\ w.key = << "u", "p", "l", "o", "a", "d", "s", "/", "P", "h", "o", "t", "o",
                            ".", "J", "P", "G", ".", "j", "p", "g" >>

\* C20: an upload whose remote calls have all settled has a settled promise.
C20_UploadSettles ==
    \A c \in UploadCalls : Quiescent(c) => calls[c].promise.state # "pending"

====
